---------------------------- MODULE Spec2Model ----------------------------
(***************************************************************************)
(* A model of the activity scraper (src/scraper.py): the aggregator        *)
(* search_activities, its three source adapters, the page image extractor, *)
(* the image validator and deduplicate_activities.                         *)
(*                                                                         *)
(* Python strings are sequences of one-character strings, so that prefix   *)
(* tests, regular-expression searches, case mapping and integer parsing    *)
(* are computed and not assumed.  An optional value (None or a value) is   *)
(* the empty tuple or a one-element tuple.                                 *)
(***************************************************************************)
EXTENDS Integers, Sequences, FiniteSets, TLC

VARIABLES
    \* search_activities (src/scraper.py:9-41)
    pc,                   \* position in search_activities
    query, date,          \* its arguments
    activities,           \* the local list the adapters' results are appended to
    toronto_com_results,  \* what scrape_toronto_com returned
    blogto_results,       \* what scrape_blogto returned
    narcity_results,      \* what scrape_narcity returned
    result,               \* the returned list
    raised,               \* the exception that escaped search_activities, if any
    validated,            \* the URLs is_valid_image_url accepted during the call
    responses,            \* how each adapter's search request ended
    \* one call of is_valid_image_url (src/scraper.py:170-232)
    v_pc, v_image_url, head, v_ret, head_requests,
    \* one call of deduplicate_activities (src/scraper.py:43-66)
    d_pc, d_in, d_out,
    \* one call of fetch_images_from_page (src/scraper.py:68-168)
    f_pc, f_url, f_page, f_ret,
    \* one call of a parse_*_result function (src/scraper.py:303-555)
    p_pc, p_site, p_container, p_ret,
    \* search_activities called with two dates (src/scraper.py:9-41)
    t_pc, t_query, t_dates, t_responses, t_out

searchVars == <<pc, query, date, activities, toronto_com_results, blogto_results,
                narcity_results, result, raised, validated, responses>>
validVars  == <<v_pc, v_image_url, head, v_ret, head_requests>>
dedupVars  == <<d_pc, d_in, d_out>>
fetchVars  == <<f_pc, f_url, f_page, f_ret>>
parseVars  == <<p_pc, p_site, p_container, p_ret>>
dateVars   == <<t_pc, t_query, t_dates, t_responses, t_out>>
vars       == <<searchVars, validVars, dedupVars, fetchVars, parseVars, dateVars>>

---------------------------------------------------------------------------
(* Python values *)

None == <<>>
Some(x) == <<x>>
IsNone(o) == o = <<>>
Val(o) == o[1]

\* the truth value of an optional string: None and "" are false
Truthy(o) == o # <<>> /\ o[1] # <<>>

Range(s) == {s[i] : i \in 1..Len(s)}

Min(a, b) == IF a <= b THEN a ELSE b

\* s[:n]
Prefix(s, n) == SubSeq(s, 1, Min(n, Len(s)))

\* s.startswith(p)
StartsWith(s, p) == Len(s) >= Len(p) /\ SubSeq(s, 1, Len(p)) = p

\* p occurs in s (re.search of a literal)
Contains(s, p) ==
    \E i \in 1..(Len(s) - Len(p) + 1) : SubSeq(s, i, i + Len(p) - 1) = p

LowerLetters == <<"a","b","c","d","e","f","g","h","i","j","k","l","m","n","o","p","q","r","s","t","u","v","w","x","y","z">>
UpperLetters == <<"A","B","C","D","E","F","G","H","I","J","K","L","M","N","O","P","Q","R","S","T","U","V","W","X","Y","Z">>

IsUpper(c) == \E i \in 1..Len(UpperLetters) : UpperLetters[i] = c
IsLower(c) == \E i \in 1..Len(LowerLetters) : LowerLetters[i] = c
IsCased(c) == IsUpper(c) \/ IsLower(c)

\* each upper-case letter's lower-case form, and the converse
LowerOf ==
    [c \in Range(UpperLetters) |->
        LowerLetters[CHOOSE i \in 1..Len(UpperLetters) : UpperLetters[i] = c]]
UpperOf ==
    [c \in Range(LowerLetters) |->
        UpperLetters[CHOOSE i \in 1..Len(LowerLetters) : LowerLetters[i] = c]]

LowerChar(c) == IF c \in DOMAIN LowerOf THEN LowerOf[c] ELSE c
UpperChar(c) == IF c \in DOMAIN UpperOf THEN UpperOf[c] ELSE c

\* s.lower(): what re.I does to a search for a lower-case literal
Lower(s) == [i \in 1..Len(s) |-> LowerChar(s[i])]

IsSpace(c) == c = " "

\* s.strip()
RECURSIVE LStrip(_)
LStrip(s) == IF s # <<>> /\ IsSpace(Head(s)) THEN LStrip(Tail(s)) ELSE s
RECURSIVE RStrip(_)
RStrip(s) ==
    IF s # <<>> /\ IsSpace(s[Len(s)]) THEN RStrip(SubSeq(s, 1, Len(s) - 1)) ELSE s
Strip(s) == RStrip(LStrip(s))

\* s.title(): a cased character is upper-cased when it follows an uncased
\* one (or starts the string) and lower-cased otherwise
Title(s) ==
    [i \in 1..Len(s) |->
        IF i > 1 /\ IsCased(s[i - 1]) THEN LowerChar(s[i]) ELSE UpperChar(s[i])]

Digits == <<"0","1","2","3","4","5","6","7","8","9">>
IsDigit(c) == \E i \in 1..Len(Digits) : Digits[i] = c
DigitVal(c) == (CHOOSE i \in 1..Len(Digits) : Digits[i] = c) - 1

RECURSIVE DigitsVal(_)
DigitsVal(s) ==
    IF s = <<>> THEN 0 ELSE 10 * DigitsVal(SubSeq(s, 1, Len(s) - 1)) + DigitVal(s[Len(s)])

\* int(s): surrounding blanks and one sign are allowed, then digits only;
\* anything else raises ValueError
IntBody(s) == IF s # <<>> /\ Head(s) \in {"+", "-"} THEN Tail(s) ELSE s
IntParses(s) ==
    LET b == IntBody(Strip(s))
    IN  b # <<>> /\ \A i \in 1..Len(b) : IsDigit(b[i])
IntOf(s) ==
    LET t == Strip(s)
    IN  IF t # <<>> /\ Head(t) = "-" THEN 0 - DigitsVal(IntBody(t)) ELSE DigitsVal(IntBody(t))

---------------------------------------------------------------------------
(* deduplicate_activities *)

\* key = url if url else title
DedupKey(activity) ==
    IF activity.source_url # <<>> THEN activity.source_url ELSE activity.title

\* the loop of lines 56-64, from item i on
RECURSIVE DedupLoop(_, _, _, _)
DedupLoop(acts, i, seen_urls, unique_activities) ==
    IF i > Len(acts) THEN unique_activities
    ELSE LET key == DedupKey(acts[i])
         IN  IF key # <<>> /\ key \notin seen_urls
             THEN DedupLoop(acts, i + 1, seen_urls \cup {key},
                            Append(unique_activities, acts[i]))
             ELSE DedupLoop(acts, i + 1, seen_urls, unique_activities)

\* a plausible slip: the last record of a key replaces the first
RECURSIVE DedupLoopKeepLast(_, _, _, _)
DedupLoopKeepLast(acts, i, seen_urls, unique_activities) ==
    IF i > Len(acts) THEN unique_activities
    ELSE LET key == DedupKey(acts[i])
             later == \E j \in (i + 1)..Len(acts) : DedupKey(acts[j]) = key
         IN  IF key # <<>> /\ ~later
             THEN DedupLoopKeepLast(acts, i + 1, seen_urls \cup {key},
                                    Append(unique_activities, acts[i]))
             ELSE DedupLoopKeepLast(acts, i + 1, seen_urls, unique_activities)

deduplicate_activities_keep_last(acts) == DedupLoopKeepLast(acts, 1, {}, <<>>)

deduplicate_activities(acts) == DedupLoop(acts, 1, {}, <<>>)

---------------------------------------------------------------------------
(* is_valid_image_url *)

\* invalid_patterns (lines 184-200), each alternation written out; they are
\* searched with re.I, so against the lower-cased URL
invalid_patterns == <<
    << <<"p","l","a","c","e","h","o","l","d","e","r">> >>,
    << <<"b","l","a","n","k">> >>,
    << <<"s","p","a","c","e","r">> >>,
    << <<"t","r","a","n","s","p","a","r","e","n","t">> >>,
    << <<"1","x","1">> >>,
    << <<"p","i","x","e","l",".","g","i","f">>,
       <<"p","i","x","e","l",".","p","n","g">>,
       <<"p","i","x","e","l",".","j","p","g">> >>,
    << <<"g","r","e","y",".","g","i","f">> >>,
    << <<"g","r","a","y",".","g","i","f">> >>,
    << <<"l","o","a","d","i","n","g",".","g","i","f">>,
       <<"l","o","a","d","i","n","g",".","p","n","g">> >>,
    << <<"a","j","a","x","-","l","o","a","d","e","r">> >>,
    << <<"s","p","i","n","n","e","r">> >>,
    << <<"n","o","-","i","m","a","g","e">> >>,
    << <<"n","o","i","m","a","g","e">> >>,
    << <<"d","e","f","a","u","l","t",".","j","p","g">>,
       <<"d","e","f","a","u","l","t",".","p","n","g">>,
       <<"d","e","f","a","u","l","t",".","g","i","f">> >>,
    << <<"d","a","t","a",":","i","m","a","g","e">> >> >>

\* re.search(pattern, image_url, re.I) for the pattern numbered n
PatternMatches(n, url) ==
    \E k \in 1..Len(invalid_patterns[n]) : Contains(Lower(url), invalid_patterns[n][k])

\* the loop of lines 202-204 finds a match
MatchesInvalidPattern(url) == \E n \in 1..Len(invalid_patterns) : PatternMatches(n, url)

\* "Less than 1KB is likely a placeholder" (line 223)
MinImageBytes == 1000

s_image_slash == <<"i","m","a","g","e","/">>

\* The outcome of requests.head: a transport failure, or a response with its
\* content-type and content-length headers (each optional).
HeadFailed == [kind |-> "fail", ctype |-> None, clen |-> None]
HeadResponse(ct, cl) == [kind |-> "ok", ctype |-> ct, clen |-> cl]

\* lines 213-227, given the response h
CheckHeaders(h) ==
    LET content_type == IF IsNone(h.ctype) THEN <<>> ELSE Val(h.ctype)
    IN  IF ~StartsWith(content_type, s_image_slash) THEN [exc |-> FALSE, ret |-> FALSE]
        ELSE IF Truthy(h.clen)
             THEN IF ~IntParses(Val(h.clen)) THEN [exc |-> TRUE, ret |-> FALSE]
                  ELSE IF IntOf(Val(h.clen)) < MinImageBytes
                       THEN [exc |-> FALSE, ret |-> FALSE]
                       ELSE [exc |-> FALSE, ret |-> TRUE]
             ELSE [exc |-> FALSE, ret |-> TRUE]

\* the try block of lines 207-232: the HEAD request, then the header checks;
\* any exception (the request's, or int()'s ValueError) gives True
ProbeImage(h) ==
    IF h.kind = "fail" THEN TRUE
    ELSE IF CheckHeaders(h).exc THEN TRUE ELSE CheckHeaders(h).ret

\* a plausible slip: the probe is issued before the patterns are consulted
is_valid_image_url_probe_first(url, h) ==
    IF url = <<>> THEN [ret |-> FALSE, head_requests |-> 0]
    ELSE [ret |-> ProbeImage(h) /\ ~MatchesInvalidPattern(url), head_requests |-> 1]

\* a plausible slip: an unreachable image is rejected (fail-closed)
is_valid_image_url_fail_closed(url, h) ==
    IF url = <<>> \/ MatchesInvalidPattern(url) THEN [ret |-> FALSE, head_requests |-> 0]
    ELSE [ret |-> h.kind # "fail" /\ ProbeImage(h), head_requests |-> 1]

\* a plausible slip: the size check is left out
is_valid_image_url_no_size(url, h) ==
    IF url = <<>> \/ MatchesInvalidPattern(url) THEN [ret |-> FALSE, head_requests |-> 0]
    ELSE [ret |-> h.kind = "fail" \/ CheckHeaders(h).exc
                   \/ StartsWith(IF IsNone(h.ctype) THEN <<>> ELSE Val(h.ctype), s_image_slash),
          head_requests |-> 1]

\* is_valid_image_url(image_url) when its HEAD request, if issued, has the
\* outcome h: the value returned and the number of HEAD requests issued
is_valid_image_url(url, h) ==
    IF url = <<>> THEN [ret |-> FALSE, head_requests |-> 0]
    ELSE IF MatchesInvalidPattern(url) THEN [ret |-> FALSE, head_requests |-> 0]
    ELSE [ret |-> ProbeImage(h), head_requests |-> 1]

---------------------------------------------------------------------------
(* fetch_images_from_page *)

s_http == <<"h","t","t","p">>
s_slashslash == <<"/","/">>
s_slash == <<"/">>
s_https_colon == <<"h","t","t","p","s",":">>
s_scheme_sep == <<":","/","/">>

\* (header|title|nav|menu|sidebar|widget), searched in the parent's classes
chrome_parent_words == <<
    <<"h","e","a","d","e","r">>,
    <<"t","i","t","l","e">>,
    <<"n","a","v">>,
    <<"m","e","n","u">>,
    <<"s","i","d","e","b","a","r">>,
    <<"w","i","d","g","e","t">> >>

\* (icon|logo|button|avatar|thumb|header|banner|nav|placeholder|blank|default),
\* searched in the image URL
chrome_src_words == <<
    <<"i","c","o","n">>,
    <<"l","o","g","o">>,
    <<"b","u","t","t","o","n">>,
    <<"a","v","a","t","a","r">>,
    <<"t","h","u","m","b">>,
    <<"h","e","a","d","e","r">>,
    <<"b","a","n","n","e","r">>,
    <<"n","a","v">>,
    <<"p","l","a","c","e","h","o","l","d","e","r">>,
    <<"b","l","a","n","k">>,
    <<"d","e","f","a","u","l","t">> >>

\* re.search(r'(w1|w2|...)', s, re.I)
SearchWords(words, s) == \E k \in 1..Len(words) : Contains(Lower(s), words[k])

\* "Limit to first 5 valid images" (line 123)
MaxImages == 5
\* an image with a stated width or height below this is skipped (line 150)
MinDimension == 200

\* the first index at or after i where p occurs in s, or 0
RECURSIVE FindFrom(_, _, _)
FindFrom(s, p, i) ==
    IF i + Len(p) - 1 > Len(s) THEN 0
    ELSE IF SubSeq(s, i, i + Len(p) - 1) = p THEN i
    ELSE FindFrom(s, p, i + 1)

\* urljoin(url, src) for a src that starts with one "/": the scheme and host
\* of url, then src
UrlJoinRoot(url, src) ==
    LET sep == FindFrom(url, s_scheme_sep, 1)
        pathAt == IF sep = 0 THEN 0 ELSE FindFrom(url, s_slash, sep + 3)
    IN  IF sep = 0 THEN src
        ELSE IF pathAt = 0 THEN url \o src
        ELSE SubSeq(url, 1, pathAt - 1) \o src

\* lines 131-136
AbsoluteSrc(url, src) ==
    IF StartsWith(src, s_http) THEN src
    ELSE IF StartsWith(src, s_slashslash) THEN s_https_colon \o src
    ELSE IF StartsWith(src, s_slash) THEN UrlJoinRoot(url, src)
    ELSE src

\* img.get('src') or img.get('data-src') or img.get('data-lazy-src')
FirstSrc(img) ==
    IF img.src # <<>> THEN Some(img.src)
    ELSE IF Truthy(img.data_src) THEN img.data_src
    ELSE IF Truthy(img.data_lazy_src) THEN img.data_lazy_src
    ELSE None

\* lines 148-154: both dimensions stated, both parse, one is below 200
TooSmall(img) ==
    /\ Truthy(img.width) /\ Truthy(img.height)
    /\ IntParses(Val(img.width))
    /\ \/ IntOf(Val(img.width)) < MinDimension
       \/ (IntParses(Val(img.height)) /\ IntOf(Val(img.height)) < MinDimension)

\* one pass of the loop body of lines 126-161 for the element img: acc with
\* the image appended if it gets through every filter and the validator
ImageStep(url, img, acc) ==
    LET raw == FirstSrc(img)
        src == AbsoluteSrc(url, Val(raw))
        keep == /\ ~IsNone(raw)
                /\ ~SearchWords(chrome_src_words, src)
                /\ ~TooSmall(img)
                /\ is_valid_image_url(src, img.head).ret
    IN  IF keep
        THEN [images |-> Append(acc.images, src), accepted |-> acc.accepted \cup {src}]
        ELSE acc

\* a plausible slip: the test of line 123 is left out
RECURSIVE ImageLoopNoCap(_, _, _, _)
ImageLoopNoCap(url, img_elements, i, acc) ==
    IF i > Len(img_elements) THEN acc
    ELSE ImageLoopNoCap(url, img_elements, i + 1, ImageStep(url, img_elements[i], acc))

\* the loop of lines 122-161 from element i on; acc is the pair of the images
\* list and the set of URLs is_valid_image_url accepted
RECURSIVE ImageLoop(_, _, _, _)
ImageLoop(url, img_elements, i, acc) ==
    IF i > Len(img_elements) \/ Len(acc.images) >= MaxImages THEN acc
    ELSE ImageLoop(url, img_elements, i + 1, ImageStep(url, img_elements[i], acc))

\* lines 97-101: the images of the content area whose parent is not chrome
ContentImages(imgs) ==
    SelectSeq(imgs, LAMBDA img : ~SearchWords(chrome_parent_words, img.parent_classes))

NoImages == [images |-> <<>>, accepted |-> {}]

\* fetch_images_from_page(url) when the page fetched is `page`: the list
\* returned and the URLs the validator accepted on the way.  A failed request,
\* an error status and a parser error all raise inside the try block, which
\* returns the (still empty) list.
fetch_images_from_page(url, page) ==
    LET og_accepted ==
            /\ IsNone(page.content_area)
            /\ ~IsNone(page.og_image)
            /\ Val(page.og_image).content # <<>>
            /\ is_valid_image_url(Val(page.og_image).content, Val(page.og_image).head).ret
        img_elements ==
            IF ~IsNone(page.content_area) THEN ContentImages(Val(page.content_area))
            ELSE IF ~IsNone(page.article) THEN Val(page.article)
            ELSE <<>>
    IN  IF page.kind # "ok" THEN NoImages
        ELSE IF og_accepted
             THEN [images |-> <<Val(page.og_image).content>>,
                   accepted |-> {Val(page.og_image).content}]
        ELSE ImageLoop(url, img_elements, 1, NoImages)

---------------------------------------------------------------------------
(* The source adapters *)

\* datetime.now().strftime('%Y-%m-%d'): the day of the call
Today == "today"

\* description text is cut to this many characters (lines 326, 432, 529)
DescriptionLimit == 200
\* containers considered by scrape_toronto_com (line 279)
TorontoComCap == 10
\* containers considered by scrape_blogto (line 396)
BlogTOCap == 5
\* containers considered by scrape_narcity (line 493)
NarcityCap == 5
\* page images taken by parse_toronto_com_result (line 341)
PageImagesTaken == 3

s_toronto_base == <<"h","t","t","p","s",":","/","/","w","w","w",".","t","o","r","o","n","t","o",".","c","o","m">>
s_blogto_base == <<"h","t","t","p","s",":","/","/","w","w","w",".","b","l","o","g","t","o",".","c","o","m">>
s_narcity_base == <<"h","t","t","p","s",":","/","/","w","w","w",".","n","a","r","c","i","t","y",".","c","o","m">>
s_toronto_desc == <<"C","l","i","c","k"," ","t","o"," ","l","e","a","r","n"," ","m","o","r","e"," ","a","b","o","u","t"," ","t","h","i","s"," ","a","c","t","i","v","i","t","y",".">>
s_blogto_desc == <<"D","i","s","c","o","v","e","r"," ","t","h","i","s"," ","a","c","t","i","v","i","t","y"," ","i","n"," ","T","o","r","o","n","t","o",".">>
s_narcity_desc == <<"C","h","e","c","k"," ","o","u","t"," ","t","h","i","s"," ","T","o","r","o","n","t","o"," ","a","c","t","i","v","i","t","y",".">>
s_Activities == <<"A","c","t","i","v","i","t","i","e","s">>

\* what a function hands back: a value, or an exception that leaves it; and
\* the URLs is_valid_image_url accepted while it ran
Return(v, acc) == [exc |-> FALSE, val |-> v, accepted |-> acc]
Raise(acc) == [exc |-> TRUE, val |-> <<>>, accepted |-> acc]

\* url = link_elem['href'] if link_elem else None, then the base host is put
\* before a non-empty href that does not start with "http"
LinkOf(container, base) ==
    IF Truthy(container.href) /\ ~StartsWith(Val(container.href), s_http)
    THEN Some(base \o Val(container.href))
    ELSE container.href

\* desc_elem.get_text(strip=True)[:200] if desc_elem else the site's sentence
DescriptionOf(container, default) ==
    IF IsNone(container.desc) THEN default
    ELSE Prefix(Val(container.desc), DescriptionLimit)

Activity(title, description, images, url, site) ==
    [id |-> <<"hash", url>>,
     title |-> title,
     description |-> description,
     date |-> Today,
     location |-> "Toronto, ON",
     images |-> images,
     source_url |-> url,
     source_site |-> site]

\* create_sample_activities(query)
create_sample_activities(q) ==
    LET query_title == IF q # <<>> THEN Title(Strip(q)) ELSE s_Activities
    IN  <<
        [id |-> <<"int", <<"1">>>>,
         title |-> <<"E","x","p","l","o","r","e"," ">> \o query_title \o <<" ","a","t"," ","C","N"," ","T","o","w","e","r">>,
         description |-> <<"E","x","p","e","r","i","e","n","c","e"," ","b","r","e","a","t","h","t","a","k","i","n","g"," ","v","i","e","w","s"," ","f","r","o","m"," ","o","n","e"," ","o","f"," ","T","o","r","o","n","t","o","'","s"," ","m","o","s","t"," ","i","c","o","n","i","c"," ","l","a","n","d","m","a","r","k","s","."," ","P","e","r","f","e","c","t"," ","f","o","r"," ","t","o","u","r","i","s","t","s"," ","a","n","d"," ","l","o","c","a","l","s"," ","a","l","i","k","e",".">>,
         date |-> Today,
         location |-> "CN Tower, 301 Front St W, Toronto",
         images |-> << <<"h","t","t","p","s",":","/","/","i","m","a","g","e","s",".","u","n","s","p","l","a","s","h",".","c","o","m","/","p","h","o","t","o","-","1","5","1","7","9","3","5","7","0","6","6","1","5","-","2","7","1","7","0","6","3","c","2","2","2","5","?","w","=","4","0","0">> >>,
         source_url |-> <<"h","t","t","p","s",":","/","/","w","w","w",".","t","o","r","o","n","t","o",".","c","o","m","/","t","h","i","n","g","s","-","t","o","-","d","o","/","c","n","-","t","o","w","e","r">>,
         source_site |-> "Toronto.com"],
        [id |-> <<"int", <<"2">>>>,
         title |-> <<"D","i","s","c","o","v","e","r"," ">> \o query_title \o <<" ","a","t"," ","R","o","y","a","l"," ","O","n","t","a","r","i","o"," ","M","u","s","e","u","m">>,
         description |-> <<"E","x","p","l","o","r","e"," ","w","o","r","l","d"," ","c","u","l","t","u","r","e","s"," ","a","n","d"," ","n","a","t","u","r","a","l"," ","h","i","s","t","o","r","y"," ","a","t"," ","C","a","n","a","d","a","'","s"," ","l","a","r","g","e","s","t"," ","m","u","s","e","u","m"," ","w","i","t","h"," ","o","v","e","r"," ","6"," ","m","i","l","l","i","o","n"," ","o","b","j","e","c","t","s",".">>,
         date |-> Today,
         location |-> "Royal Ontario Museum, 100 Queens Park, Toronto",
         images |-> << <<"h","t","t","p","s",":","/","/","i","m","a","g","e","s",".","u","n","s","p","l","a","s","h",".","c","o","m","/","p","h","o","t","o","-","1","5","6","6","1","2","7","9","9","2","6","3","1","-","1","3","7","a","6","4","2","a","9","0","f","4","?","w","=","4","0","0">> >>,
         source_url |-> <<"h","t","t","p","s",":","/","/","w","w","w",".","t","o","r","o","n","t","o",".","c","o","m","/","t","h","i","n","g","s","-","t","o","-","d","o","/","r","o","y","a","l","-","o","n","t","a","r","i","o","-","m","u","s","e","u","m">>,
         source_site |-> "Toronto.com"],
        [id |-> <<"int", <<"3">>>>,
         title |-> <<>> \o query_title \o <<" ","E","x","p","e","r","i","e","n","c","e"," ","a","t"," ","H","a","r","b","o","u","r","f","r","o","n","t"," ","C","e","n","t","r","e">>,
         description |-> <<"Y","e","a","r","-","r","o","u","n","d"," ","c","u","l","t","u","r","a","l"," ","a","c","t","i","v","i","t","i","e","s",","," ","f","e","s","t","i","v","a","l","s",","," ","a","n","d"," ","e","v","e","n","t","s"," ","o","n"," ","T","o","r","o","n","t","o","'","s"," ","b","e","a","u","t","i","f","u","l"," ","w","a","t","e","r","f","r","o","n","t",".">>,
         date |-> Today,
         location |-> "Harbourfront Centre, 235 Queens Quay W, Toronto",
         images |-> << <<"h","t","t","p","s",":","/","/","i","m","a","g","e","s",".","u","n","s","p","l","a","s","h",".","c","o","m","/","p","h","o","t","o","-","1","5","1","9","0","0","3","7","2","2","8","2","4","-","1","9","4","d","4","4","5","5","a","6","0","c","?","w","=","4","0","0">> >>,
         source_url |-> <<"h","t","t","p","s",":","/","/","w","w","w",".","t","o","r","o","n","t","o",".","c","o","m","/","t","h","i","n","g","s","-","t","o","-","d","o","/","h","a","r","b","o","u","r","f","r","o","n","t","-","c","e","n","t","r","e">>,
         source_site |-> "Toronto.com"],
        [id |-> <<"int", <<"4">>>>,
         title |-> <<>> \o query_title \o <<" ","a","t"," ","T","o","r","o","n","t","o"," ","I","s","l","a","n","d","s">>,
         description |-> <<"E","s","c","a","p","e"," ","t","o"," ","a"," ","p","e","a","c","e","f","u","l"," ","o","a","s","i","s"," ","j","u","s","t"," ","m","i","n","u","t","e","s"," ","f","r","o","m"," ","d","o","w","n","t","o","w","n"," ","w","i","t","h"," ","b","e","a","c","h","e","s",","," ","p","a","r","k","s",","," ","a","n","d"," ","s","t","u","n","n","i","n","g"," ","s","k","y","l","i","n","e"," ","v","i","e","w","s",".">>,
         date |-> Today,
         location |-> "Toronto Islands, Toronto",
         images |-> << <<"h","t","t","p","s",":","/","/","i","m","a","g","e","s",".","u","n","s","p","l","a","s","h",".","c","o","m","/","p","h","o","t","o","-","1","5","6","8","6","4","3","2","4","3","1","8","7","-","a","c","6","c","0","3","7","0","0","c","0","2","?","w","=","4","0","0">> >>,
         source_url |-> <<"h","t","t","p","s",":","/","/","w","w","w",".","t","o","r","o","n","t","o",".","c","o","m","/","t","h","i","n","g","s","-","t","o","-","d","o","/","t","o","r","o","n","t","o","-","i","s","l","a","n","d","s">>,
         source_site |-> "Toronto.com"],
        [id |-> <<"int", <<"5">>>>,
         title |-> <<"E","n","j","o","y"," ">> \o query_title \o <<" ","a","t"," ","S","t","."," ","L","a","w","r","e","n","c","e"," ","M","a","r","k","e","t">>,
         description |-> <<"O","n","e"," ","o","f"," ","t","h","e"," ","w","o","r","l","d","'","s"," ","b","e","s","t"," ","f","o","o","d"," ","m","a","r","k","e","t","s"," ","w","i","t","h"," ","f","r","e","s","h"," ","p","r","o","d","u","c","e",","," ","s","p","e","c","i","a","l","t","y"," ","f","o","o","d","s",","," ","a","n","d"," ","a","r","t","i","s","a","n"," ","g","o","o","d","s",".">>,
         date |-> Today,
         location |-> "St. Lawrence Market, 93 Front St E, Toronto",
         images |-> << <<"h","t","t","p","s",":","/","/","i","m","a","g","e","s",".","u","n","s","p","l","a","s","h",".","c","o","m","/","p","h","o","t","o","-","1","5","5","5","9","3","9","5","9","4","-","5","8","d","7","c","b","5","6","1","a","d","1","?","w","=","4","0","0">> >>,
         source_url |-> <<"h","t","t","p","s",":","/","/","w","w","w",".","t","o","r","o","n","t","o",".","c","o","m","/","t","h","i","n","g","s","-","t","o","-","d","o","/","s","t","-","l","a","w","r","e","n","c","e","-","m","a","r","k","e","t">>,
         source_site |-> "Toronto.com"] >>

\* a plausible slip: the title test of line 343 is left out of the condition
\* (a missing title is shown as an empty one)
parse_toronto_com_result_no_title_test(container) ==
    IF container.raises THEN Return(None, {})
    ELSE LET title == container.title
             url == LinkOf(container, s_toronto_base)
             description == DescriptionOf(container, s_toronto_desc)
             src == IF IsNone(container.img) THEN None ELSE Some(Val(container.img).src)
             image_url == IF Truthy(src) /\ ~StartsWith(Val(src), s_http)
                          THEN Some(s_toronto_base \o Val(src))
                          ELSE src
             fetched == IF ~Truthy(image_url) /\ Truthy(url)
                        THEN fetch_images_from_page(Val(url), container.page)
                        ELSE NoImages
             images == IF Truthy(image_url) THEN <<Val(image_url)>>
                       ELSE Prefix(fetched.images, PageImagesTaken)
         IN  IF Truthy(url)
             THEN Return(Some(Activity(IF IsNone(title) THEN <<>> ELSE Val(title),
                                       description, images, Val(url), "Toronto.com")),
                         fetched.accepted)
             ELSE Return(None, fetched.accepted)

\* parse_toronto_com_result(container): the record or None.  An exception in
\* the try block (container.find raising) is caught and gives None.
parse_toronto_com_result(container) ==
    IF container.raises THEN Return(None, {})
    ELSE LET title == container.title
             url == LinkOf(container, s_toronto_base)
             description == DescriptionOf(container, s_toronto_desc)
             src == IF IsNone(container.img) THEN None ELSE Some(Val(container.img).src)
             image_url == IF Truthy(src) /\ ~StartsWith(Val(src), s_http)
                          THEN Some(s_toronto_base \o Val(src))
                          ELSE src
             fetched == IF ~Truthy(image_url) /\ Truthy(url)
                        THEN fetch_images_from_page(Val(url), container.page)
                        ELSE NoImages
             images == IF Truthy(image_url) THEN <<Val(image_url)>>
                       ELSE Prefix(fetched.images, PageImagesTaken)
         IN  IF Truthy(title) /\ Truthy(url)
             THEN Return(Some(Activity(Val(title), description, images, Val(url),
                                       "Toronto.com")), fetched.accepted)
             ELSE Return(None, fetched.accepted)

\* the inline image of parse_blogto_result and parse_narcity_result:
\* img_elem.get('src') or img_elem.get('data-src')
SrcOrDataSrc(img) == IF img.src # <<>> THEN Some(img.src) ELSE img.data_src

\* parse_blogto_result(container).  With no <img src> in the container,
\* img_elem is None and img_elem.get raises AttributeError inside the try block.
parse_blogto_result(container) ==
    IF container.raises \/ IsNone(container.img) THEN Return(None, {})
    ELSE LET title == container.title
             url == LinkOf(container, s_blogto_base)
             description == DescriptionOf(container, s_blogto_desc)
             src == SrcOrDataSrc(Val(container.img))
             image_url == IF Truthy(src) /\ ~StartsWith(Val(src), s_http)
                          THEN Some(s_blogto_base \o Val(src))
                          ELSE src
         IN  IF Truthy(title) /\ Truthy(url)
             THEN Return(Some(Activity(Val(title), description,
                                       IF Truthy(image_url) THEN <<Val(image_url)>> ELSE <<>>,
                                       Val(url), "BlogTO")), {})
             ELSE Return(None, {})

\* parse_narcity_result(container): as parse_blogto_result, and a
\* protocol-relative image URL gets "https:"
parse_narcity_result(container) ==
    IF container.raises \/ IsNone(container.img) THEN Return(None, {})
    ELSE LET title == container.title
             url == LinkOf(container, s_narcity_base)
             description == DescriptionOf(container, s_narcity_desc)
             src == SrcOrDataSrc(Val(container.img))
             image_url == IF Truthy(src) /\ ~StartsWith(Val(src), s_http)
                          THEN IF StartsWith(Val(src), s_slashslash)
                               THEN Some(s_https_colon \o Val(src))
                               ELSE Some(s_narcity_base \o Val(src))
                          ELSE src
         IN  IF Truthy(title) /\ Truthy(url)
             THEN Return(Some(Activity(Val(title), description,
                                       IF Truthy(image_url) THEN <<Val(image_url)>> ELSE <<>>,
                                       Val(url), "Narcity")), {})
             ELSE Return(None, {})

\* one pass of a scrape loop (lines 280-286, 397-403, 494-500) given what
\* the parser handed back: a record is appended when the parser returns one;
\* an exception leaving the parser skips the container
LoopStep(acc, r) ==
    [exc |-> FALSE,
     val |-> IF r.exc \/ IsNone(r.val) THEN acc.val ELSE Append(acc.val, Val(r.val)),
     accepted |-> acc.accepted \cup r.accepted]

\* the loop of lines 279-286 from container i on
RECURSIVE TorontoComLoop(_, _, _)
TorontoComLoop(containers, i, acc) ==
    IF i > Len(containers) THEN acc
    ELSE TorontoComLoop(containers, i + 1,
                        LoopStep(acc, parse_toronto_com_result(containers[i])))

\* the loop of lines 396-403
RECURSIVE BlogTOLoop(_, _, _)
BlogTOLoop(containers, i, acc) ==
    IF i > Len(containers) THEN acc
    ELSE BlogTOLoop(containers, i + 1, LoopStep(acc, parse_blogto_result(containers[i])))

\* the loop of lines 493-500
RECURSIVE NarcityLoop(_, _, _)
NarcityLoop(containers, i, acc) ==
    IF i > Len(containers) THEN acc
    ELSE NarcityLoop(containers, i + 1, LoopStep(acc, parse_narcity_result(containers[i])))

\* How a search request ends: "transport" (requests.get raises), "status"
\* (raise_for_status raises), "parser" (building the soup raises) or "ok" with
\* the result containers found; link_containers are the anchors the Toronto.com
\* fallback selector of line 275 finds.
RequestFailed(resp) == resp.kind \in {"transport", "status"}

\* a plausible slip: no sample records when the request fails
scrape_toronto_com_no_fallback(q, d, resp) ==
    IF resp.kind # "ok" THEN Return(<<>>, {})
    ELSE LET result_containers ==
                 IF resp.containers # <<>> THEN resp.containers ELSE resp.link_containers
             loop == TorontoComLoop(Prefix(result_containers, TorontoComCap), 1,
                                    Return(<<>>, {}))
         IN  IF loop.val = <<>> THEN Return(create_sample_activities(q), loop.accepted)
             ELSE loop

\* a plausible slip: the test of lines 289-291 is left out
scrape_toronto_com_no_samples_if_empty(q, d, resp) ==
    IF resp.kind # "ok" THEN Return(create_sample_activities(q), {})
    ELSE LET result_containers ==
                 IF resp.containers # <<>> THEN resp.containers ELSE resp.link_containers
         IN  TorontoComLoop(Prefix(result_containers, TorontoComCap), 1, Return(<<>>, {}))

\* scrape_toronto_com(query, date) when its request ends as resp
scrape_toronto_com(q, d, resp) ==
    IF RequestFailed(resp) THEN Return(create_sample_activities(q), {})
    ELSE IF resp.kind # "ok" THEN Return(create_sample_activities(q), {})
    ELSE LET result_containers ==
                 IF resp.containers # <<>> THEN resp.containers ELSE resp.link_containers
             loop == TorontoComLoop(Prefix(result_containers, TorontoComCap), 1,
                                    Return(<<>>, {}))
         IN  IF loop.val = <<>> THEN Return(create_sample_activities(q), loop.accepted)
             ELSE loop

\* a plausible slip: only the per-container handler, no handler around the fetch
scrape_blogto_uncaught(q, d, resp) ==
    IF resp.kind # "ok" THEN Raise({})
    ELSE BlogTOLoop(Prefix(resp.containers, BlogTOCap), 1, Return(<<>>, {}))

\* scrape_blogto(query, date) when its request ends as resp
scrape_blogto(q, d, resp) ==
    IF resp.kind # "ok" THEN Return(<<>>, {})
    ELSE BlogTOLoop(Prefix(resp.containers, BlogTOCap), 1, Return(<<>>, {}))

\* scrape_narcity(query, date) when its request ends as resp
scrape_narcity(q, d, resp) ==
    IF resp.kind # "ok" THEN Return(<<>>, {})
    ELSE NarcityLoop(Prefix(resp.containers, NarcityCap), 1, Return(<<>>, {}))

---------------------------------------------------------------------------
(* One call of is_valid_image_url on a URL and a probe outcome *)

\* URLs that hold one of the denylisted words, in either case
DenylistedUrls == {
    <<"h","t","t","p",":","/","/","h","/","p","l","a","c","e","h","o","l","d","e","r",".","p","n","g">>,   \* http://h/placeholder.png
    <<"/","B","l","a","n","k",".","g","i","f">>,   \* /Blank.gif
    <<"/","/","c","/","S","P","A","C","E","R",".","g","i","f">>,   \* //c/SPACER.gif
    <<"h","t","t","p",":","/","/","h","/","t","r","a","n","s","p","a","r","e","n","t",".","p","n","g">>,   \* http://h/transparent.png
    <<"h","t","t","p",":","/","/","h","/","1","X","1",".","p","n","g">>,   \* http://h/1X1.png
    <<"h","t","t","p",":","/","/","h","/","p","i","x","e","l",".","g","i","f">>,   \* http://h/pixel.gif
    <<"/","P","i","x","e","l",".","J","P","G">>,   \* /Pixel.JPG
    <<"/","t","/","p","i","x","e","l",".","p","n","g">>,   \* /t/pixel.png
    <<"/","g","r","e","y",".","g","i","f">>,   \* /grey.gif
    <<"/","G","R","A","Y",".","G","I","F">>,   \* /GRAY.GIF
    <<"/","l","o","a","d","i","n","g",".","g","i","f">>,   \* /loading.gif
    <<"/","L","o","a","d","i","n","g",".","P","N","G">>,   \* /Loading.PNG
    <<"/","a","j","a","x","-","l","o","a","d","e","r",".","g","i","f">>,   \* /ajax-loader.gif
    <<"/","s","p","i","n","n","e","r",".","s","v","g">>,   \* /spinner.svg
    <<"/","n","o","-","i","m","a","g","e",".","j","p","g">>,   \* /no-image.jpg
    <<"/","N","o","I","m","a","g","e",".","j","p","g">>,   \* /NoImage.jpg
    <<"/","d","e","f","a","u","l","t",".","j","p","g">>,   \* /default.jpg
    <<"/","D","e","f","a","u","l","t",".","p","n","g">>,   \* /Default.png
    <<"/","d","e","f","a","u","l","t",".","g","i","f">>,   \* /default.gif
    <<"d","a","t","a",":","i","m","a","g","e","/","g","i","f",";","b","a","s","e","6","4",",","R","0">> }

\* URLs that hold none of them, some only just
CleanUrls == {
    <<"h","t","t","p",":","/","/","h","/","a",".","j","p","g">>,   \* http://h/a.jpg
    <<"h","t","t","p","s",":","/","/","h","/","P","h","o","t","o",".","p","n","g">>,   \* https://h/Photo.png
    <<"/","p","i","x","e","l","s",".","j","p","g">>,   \* /pixels.jpg
    <<"/","g","r","e","y","x","g","i","f">>,   \* /greyxgif
    <<"/","d","e","f","a","u","l","t","/","a",".","j","p","g">>,   \* /default/a.jpg
    <<"/","/","c","/","b",".","j","p","g">> }

ContentTypes == { None,
    Some(<<"i","m","a","g","e","/","j","p","e","g">>),
    Some(<<"i","m","a","g","e","/">>),
    Some(<<"t","e","x","t","/","h","t","m","l">>),
    Some(<<"I","m","a","g","e","/","p","n","g">>) }

ContentLengths == { None,
    Some(<<>>),
    Some(<<"0">>),
    Some(<<"5","0","0">>),
    Some(<<"9","9","9">>),
    Some(<<"1","0","0","0">>),
    Some(<<"5","0","0","0">>),
    Some(<<"a","b","c">>),
    Some(<<" ","5","0","0"," ">>) }

HeadOutcomes ==
    {HeadFailed} \cup {HeadResponse(ct, cl) : ct \in ContentTypes, cl \in ContentLengths}

SearchIdle ==
    /\ pc = "idle" /\ query = <<>> /\ date = None /\ activities = <<>>
    /\ toronto_com_results = <<>> /\ blogto_results = <<>> /\ narcity_results = <<>>
    /\ result = <<>> /\ raised = FALSE /\ validated = {}
    /\ responses = <<>>
ValidIdle ==
    /\ v_pc = "idle" /\ v_image_url = <<>> /\ head = HeadFailed /\ v_ret = FALSE
    /\ head_requests = 0
DedupIdle == d_pc = "idle" /\ d_in = <<>> /\ d_out = <<>>
FetchIdle == f_pc = "idle" /\ f_url = <<>> /\ f_page = <<>> /\ f_ret = <<>>
ParseIdle == p_pc = "idle" /\ p_site = "" /\ p_container = <<>> /\ p_ret = <<>>
DateIdle ==
    t_pc = "idle" /\ t_query = <<>> /\ t_dates = <<>> /\ t_responses = <<>> /\ t_out = <<>>
OthersIdle == FetchIdle /\ ParseIdle /\ DateIdle

InitValid ==
    /\ v_pc = "call"
    /\ v_image_url \in DenylistedUrls \cup CleanUrls \cup {<<>>}
    /\ head \in HeadOutcomes
    /\ v_ret = FALSE
    /\ head_requests = 0
    /\ SearchIdle /\ DedupIdle /\ OthersIdle

\* the call runs to its return
IsValidImageUrl ==
    /\ v_pc = "call"
    /\ v_ret' = is_valid_image_url(v_image_url, head).ret
    /\ head_requests' = head_requests + is_valid_image_url(v_image_url, head).head_requests
    /\ v_pc' = "returned"
    /\ UNCHANGED <<v_image_url, head, searchVars, dedupVars, fetchVars, parseVars, dateVars>>

NextValid == IsValidImageUrl

SpecValid == InitValid /\ [][NextValid]_vars

---------------------------------------------------------------------------
(* One call of deduplicate_activities on a list of records *)

\* the longest list handed to deduplicate_activities
MaxActivities == 3

s_u == <<"u">>
s_v == <<"v">>
s_t == <<"t">>

\* the (source_url, title) pairs of the records: a title may equal a URL
KeyFields == {<<>>, s_u, s_v} \X {<<>>, s_t, s_u}

\* the lists of at most MaxActivities records; a record's id is its place in
\* the list, so any two records of a list differ in a field other than the key
DedupInputs ==
    UNION {{[i \in 1..n |-> [id |-> i, source_url |-> f[i][1], title |-> f[i][2]]] :
                f \in [1..n -> KeyFields]} : n \in 0..MaxActivities}

InitDedup ==
    /\ d_pc = "call"
    /\ d_in \in DedupInputs
    /\ d_out = <<>>
    /\ SearchIdle /\ ValidIdle /\ OthersIdle

\* the call runs to its return
DeduplicateActivities ==
    /\ d_pc = "call"
    /\ d_out' = deduplicate_activities(d_in)
    /\ d_pc' = "returned"
    /\ UNCHANGED <<d_in, searchVars, validVars, fetchVars, parseVars, dateVars>>

NextDedup == DeduplicateActivities

SpecDedup == InitDedup /\ [][NextDedup]_vars

---------------------------------------------------------------------------
(* One call of search_activities *)

\* the most result containers in one search response
MaxContainers == 2

s_image_jpeg == <<"i","m","a","g","e","/","j","p","e","g">>
s_5000 == <<"5","0","0","0">>
s_500 == <<"5","0","0">>

Queries == { <<>>, <<" ","j","a","z","z"," ","b","a","r"," ">> }
Dates == { None, Some("2026-11-07") }

HeadImage == HeadResponse(Some(s_image_jpeg), Some(s_5000))
HeadTiny == HeadResponse(Some(s_image_jpeg), Some(s_500))

\* an <img src=...> element of a fetched page, with the outcome of the HEAD
\* request for its URL should one be issued
Img(src, data_src, width, height, parent_classes, h) ==
    [src |-> src, data_src |-> data_src, data_lazy_src |-> None,
     width |-> width, height |-> height, parent_classes |-> parent_classes, head |-> h]

PageDown == [kind |-> "transport", content_area |-> None, og_image |-> None, article |-> None]

\* a page with a content area: three of its images are accepted before the
\* fourth, the others are filtered out on the way
PageContent ==
    [kind |-> "ok",
     content_area |-> Some(<<
        Img(<<"/","l","o","g","o",".","p","n","g">>, None, None, None, <<"p","o","s","t","-","b","o","d","y">>, HeadImage),
        Img(<<"/","a",".","j","p","g">>, None, None, None, <<"p","o","s","t","-","b","o","d","y">>, HeadImage),
        Img(<<"/","s",".","j","p","g">>, None, None, None, <<"s","i","t","e","-","H","e","a","d","e","r">>, HeadImage),
        Img(<<"/","/","c","/","b",".","j","p","g">>, None, None, None, <<>>, HeadFailed),
        Img(<<"h","t","t","p",":","/","/","x","/","t",".","j","p","g">>, None, None, None, <<>>, HeadTiny),
        Img(<<"h","t","t","p",":","/","/","x","/","w",".","j","p","g">>, None, Some(<<"1","0","0">>), Some(<<"3","0","0">>), <<>>, HeadImage),
        Img(<<>>, Some(<<"h","t","t","p",":","/","/","x","/","c",".","j","p","g">>), None, None, <<>>, HeadImage),
        Img(<<"h","t","t","p",":","/","/","x","/","d",".","j","p","g">>, None, None, None, <<>>, HeadImage) >>),
     og_image |-> None,
     article |-> None]

\* a page without a content area whose og:image is accepted
PageOg ==
    [kind |-> "ok", content_area |-> None,
     og_image |-> Some([content |-> <<"h","t","t","p",":","/","/","x","/","o","g",".","j","p","g">>, head |-> HeadImage]),
     article |-> None]

\* a page without a content area whose og:image is denylisted, with an article
PageArticle ==
    [kind |-> "ok", content_area |-> None,
     og_image |-> Some([content |-> <<"/","d","e","f","a","u","l","t",".","p","n","g">>, head |-> HeadImage]),
     article |-> Some(<<
        Img(<<"e",".","j","p","g">>, None, None, None, <<>>, HeadImage) >>)]

s_T1 == <<"T","1">>
s_T2 == <<"T","2">>
s_T3 == <<"T","3">>
s_T4 == <<"T","4">>
s_x_p == <<"h","t","t","p",":","/","/","x","/","p">>

\* a result container: the text of its first heading or anchor, the href of
\* its first anchor, the text of its description element, its first <img src>
\* (src and data-src), whether searching it raises, and (for Toronto.com) the
\* page its link leads to
Container(title, href, desc, img, page, raises) ==
    [title |-> title, href |-> href, desc |-> desc, img |-> img, page |-> page,
     raises |-> raises]

InlineImg(src, data_src) == [src |-> src, data_src |-> data_src]

ContainersA == {
    \* a link and an inline image
    Container(Some(s_T1), Some(<<"/","p">>), None, Some(InlineImg(<<"/","i",".","j","p","g">>, None)), PageDown, FALSE),
    \* the same link, with a placeholder as its inline image
    Container(Some(s_T1), Some(<<"/","p">>), Some(<<"d">>), Some(InlineImg(<<"/","b","l","a","n","k",".","g","i","f">>, None)), PageDown, FALSE),
    \* no inline image: the images come from the page
    Container(Some(s_T2), Some(s_x_p), None, None, PageContent, FALSE),
    \* a heading and no link
    Container(Some(s_T1), None, None, None, PageDown, FALSE),
    \* a link whose anchor has no text and an empty src: its page is fetched
    \* all the same, and the fetch fails
    Container(Some(<<>>), Some(<<"/","q">>), None, Some(InlineImg(<<>>, None)), PageDown, FALSE),
    \* searching the container raises
    Container(None, None, None, None, PageDown, TRUE) }

\* an anchor found by the fallback selector: nothing below it is an anchor
LinkContainersA == { <<>>, <<Container(Some(s_T1), None, None, None, PageDown, FALSE)>> }

ContainersB == {
    \* the link one Toronto.com container also carries
    Container(Some(s_T2), Some(s_x_p), None, Some(InlineImg(<<"/","i",".","j","p","g">>, None)), PageDown, FALSE),
    \* a title and a link, no image
    Container(Some(s_T3), Some(<<"/","b">>), None, None, PageDown, FALSE),
    \* an empty src and a data-src
    Container(Some(s_T3), Some(<<"/","b">>), Some(<<"d">>), Some(InlineImg(<<>>, Some(<<"/","/","c","/","z",".","j","p","g">>))), PageDown, FALSE),
    \* an image and an anchor whose href is empty
    Container(Some(s_T3), Some(<<>>), None, Some(InlineImg(<<"/","S","P","A","C","E","R",".","g","i","f">>, None)), PageDown, FALSE) }

ContainersC == {
    Container(Some(s_T2), Some(s_x_p), None, Some(InlineImg(<<"/","/","c","/","z",".","j","p","g">>, None)), PageDown, FALSE),
    \* an <img> whose src is empty and that has no data-src
    Container(Some(s_T4), Some(<<"/","n">>), None, Some(InlineImg(<<>>, None)), PageDown, FALSE),
    \* a title and a link, no image
    Container(Some(s_T4), Some(<<"/","n">>), None, None, PageDown, FALSE) }

SeqsUpTo(S, n) == UNION {[1..k -> S] : k \in 0..n}

Failure(kind) == [kind |-> kind, containers |-> <<>>, link_containers |-> <<>>]
Failures == {Failure("transport"), Failure("status"), Failure("parser")}

ResponsesA ==
    Failures
    \cup {[kind |-> "ok", containers |-> cs, link_containers |-> <<>>] :
              cs \in SeqsUpTo(ContainersA, MaxContainers)}
    \cup {[kind |-> "ok", containers |-> <<>>, link_containers |-> ls] : ls \in LinkContainersA}
ResponsesB ==
    Failures
    \cup {[kind |-> "ok", containers |-> cs, link_containers |-> <<>>] :
              cs \in SeqsUpTo(ContainersB, MaxContainers)}
ResponsesC ==
    Failures
    \cup {[kind |-> "ok", containers |-> cs, link_containers |-> <<>>] :
              cs \in SeqsUpTo(ContainersC, MaxContainers)}

Init ==
    /\ pc = "toronto_com"
    /\ query \in Queries
    /\ date \in Dates
    /\ activities = <<>>
    /\ toronto_com_results = <<>> /\ blogto_results = <<>> /\ narcity_results = <<>>
    /\ result = <<>>
    /\ raised = FALSE
    /\ validated = {}
    /\ responses = <<>>
    /\ ValidIdle /\ DedupIdle /\ OthersIdle

\* a plausible slip: the new results are put in front
ExtendFront(list, more) == more \o list

\* list.extend (lines 27, 31, 35)
Extend(list, more) == list \o more

\* lines 26-27, or the exception leaving search_activities
SearchTorontoCom ==
    /\ pc = "toronto_com"
    /\ \E resp \in ResponsesA :
          LET r == scrape_toronto_com(query, date, resp)
          IN  /\ responses' = Append(responses, resp.kind)
              /\ validated' = validated \cup r.accepted
              /\ IF r.exc
                 THEN /\ raised' = TRUE /\ pc' = "raised"
                      /\ UNCHANGED <<toronto_com_results, activities>>
                 ELSE /\ toronto_com_results' = r.val
                      /\ activities' = Extend(activities, r.val)
                      /\ pc' = "blogto"
                      /\ UNCHANGED raised
    /\ UNCHANGED <<query, date, blogto_results, narcity_results, result, validVars, dedupVars, fetchVars, parseVars, dateVars>>

\* lines 30-31
SearchBlogTO ==
    /\ pc = "blogto"
    /\ \E resp \in ResponsesB :
          LET r == scrape_blogto(query, date, resp)
          IN  /\ responses' = Append(responses, resp.kind)
              /\ validated' = validated \cup r.accepted
              /\ IF r.exc
                 THEN /\ raised' = TRUE /\ pc' = "raised"
                      /\ UNCHANGED <<blogto_results, activities>>
                 ELSE /\ blogto_results' = r.val
                      /\ activities' = Extend(activities, r.val)
                      /\ pc' = "narcity"
                      /\ UNCHANGED raised
    /\ UNCHANGED <<query, date, toronto_com_results, narcity_results, result, validVars, dedupVars, fetchVars, parseVars, dateVars>>

\* lines 34-35
SearchNarcity ==
    /\ pc = "narcity"
    /\ \E resp \in ResponsesC :
          LET r == scrape_narcity(query, date, resp)
          IN  /\ responses' = Append(responses, resp.kind)
              /\ validated' = validated \cup r.accepted
              /\ IF r.exc
                 THEN /\ raised' = TRUE /\ pc' = "raised"
                      /\ UNCHANGED <<narcity_results, activities>>
                 ELSE /\ narcity_results' = r.val
                      /\ activities' = Extend(activities, r.val)
                      /\ pc' = "dedup"
                      /\ UNCHANGED raised
    /\ UNCHANGED <<query, date, toronto_com_results, blogto_results, result, validVars, dedupVars, fetchVars, parseVars, dateVars>>

\* lines 38-41: activities = deduplicate_activities(activities); return activities
RemoveDuplicates ==
    /\ pc = "dedup"
    /\ activities' = deduplicate_activities(activities)
    /\ result' = activities'
    /\ pc' = "done"
    /\ UNCHANGED <<query, date, toronto_com_results, blogto_results, narcity_results,
                   raised, validated, responses, validVars, dedupVars, fetchVars, parseVars, dateVars>>

Next == SearchTorontoCom \/ SearchBlogTO \/ SearchNarcity \/ RemoveDuplicates

Spec == Init /\ [][Next]_vars

---------------------------------------------------------------------------
(* One call of fetch_images_from_page on a URL and the page it leads to *)

\* the most <img src> elements in the content area of a page
MaxPageImages == 6

\* the most <img src> elements of the article of a page without content area
MaxArticleImages == 2

PageUrls == { s_x_p, <<"h","t","t","p","s",":","/","/","w","w","w",".","t","o","r","o","n","t","o",".","c","o","m","/","q">> }

\* <img> elements: one accepted after a HEAD response, one accepted because
\* its HEAD request fails, one the validator rejects (500 bytes), and one
\* accepted whose parent is a header
ArticleImgs == {
    Img(<<"/","a",".","j","p","g">>, None, None, None, <<"p","o","s","t","-","b","o","d","y">>, HeadImage),
    Img(<<"/","/","c","/","b",".","j","p","g">>, None, None, None, <<>>, HeadFailed),
    Img(<<"h","t","t","p",":","/","/","x","/","t",".","j","p","g">>, None, None, None, <<>>, HeadTiny),
    Img(<<"/","s",".","j","p","g">>, None, None, None, <<"s","i","t","e","-","H","e","a","d","e","r">>, HeadImage) }

\* the first three of them
PageImgs == {img \in ArticleImgs : ~SearchWords(chrome_parent_words, img.parent_classes)}

\* og:image meta tags: none, one accepted, one denylisted, one without content
OgImages == {
    None,
    Some([content |-> <<"h","t","t","p",":","/","/","x","/","o","g",".","j","p","g">>, head |-> HeadImage]),
    Some([content |-> <<"/","d","e","f","a","u","l","t",".","p","n","g">>, head |-> HeadImage]),
    Some([content |-> <<>>, head |-> HeadImage]) }

FetchedPages ==
    {[kind |-> k, content_area |-> None, og_image |-> None, article |-> None] :
        k \in {"transport", "status", "parser"}}
    \cup {[kind |-> "ok", content_area |-> Some(imgs), og_image |-> None, article |-> None] :
              imgs \in SeqsUpTo(PageImgs, MaxPageImages)}
    \cup {[kind |-> "ok", content_area |-> None, og_image |-> og, article |-> art] :
              og \in OgImages,
              art \in {None} \cup {Some(imgs) : imgs \in SeqsUpTo(ArticleImgs, MaxArticleImages)}}
    \cup {PageContent, PageOg, PageArticle}

InitFetch ==
    /\ f_pc = "call"
    /\ f_url \in PageUrls
    /\ f_page \in FetchedPages
    /\ f_ret = <<>>
    /\ SearchIdle /\ ValidIdle /\ DedupIdle /\ ParseIdle /\ DateIdle

\* the call runs to its return
FetchImagesFromPage ==
    /\ f_pc = "call"
    /\ f_ret' = fetch_images_from_page(f_url, f_page)
    /\ f_pc' = "returned"
    /\ UNCHANGED <<f_url, f_page, searchVars, validVars, dedupVars, parseVars, dateVars>>

NextFetch == FetchImagesFromPage

SpecFetch == InitFetch /\ [][NextFetch]_vars

---------------------------------------------------------------------------
(* One call of a source adapter's parser on a result container *)

ParserSites == {"Toronto.com", "BlogTO", "Narcity"}

\* what container.find('img', src=True) gives: no element, an empty src, a
\* relative src, an empty src with a protocol-relative data-src
InlineImgs == {
    None,
    Some(InlineImg(<<>>, None)),
    Some(InlineImg(<<"/","i",".","j","p","g">>, None)),
    Some(InlineImg(<<>>, Some(<<"/","/","c","/","z",".","j","p","g">>))) }

\* containers: the title is the text of the first heading or anchor, so a
\* container with an anchor has a title (which may be empty)
ParsedContainers ==
    {c \in {Container(title, href, desc, img, page, FALSE) :
                title \in {None, Some(<<>>), Some(s_T1)},
                href \in {None, Some(<<>>), Some(<<"/","p">>), Some(s_x_p)},
                desc \in {None, Some(<<"d">>)},
                img \in InlineImgs,
                page \in {PageDown, PageArticle}} :
        IsNone(c.title) => IsNone(c.href)}
    \cup {Container(None, None, None, None, PageDown, TRUE)}

InitParse ==
    /\ p_pc = "call"
    /\ p_site \in ParserSites
    /\ p_container \in ParsedContainers
    /\ p_ret = <<>>
    /\ SearchIdle /\ ValidIdle /\ DedupIdle /\ FetchIdle /\ DateIdle

\* the adapter's parser runs to its return
ParseResult ==
    /\ p_pc = "call"
    /\ p_ret' = CASE p_site = "Toronto.com" -> parse_toronto_com_result(p_container)
                  [] p_site = "BlogTO" -> parse_blogto_result(p_container)
                  [] p_site = "Narcity" -> parse_narcity_result(p_container)
    /\ p_pc' = "returned"
    /\ UNCHANGED <<p_site, p_container, searchVars, validVars, dedupVars, fetchVars, dateVars>>

NextParse == ParseResult

SpecParse == InitParse /\ [][NextParse]_vars

---------------------------------------------------------------------------
(* Two calls of search_activities that differ in the date alone *)

\* the most result containers in the three responses together
MaxDateContainers == 1

\* requests.get(search_url, params=params, ...) of lines 249-261
TorontoComRequest(q, d) ==
    [url |-> <<"h","t","t","p","s",":","/","/","w","w","w",".","t","o","r","o","n","t","o",".","c","o","m","/","s","e","a","r","c","h","/">>,
     params |-> <<q, <<"t","h","i","n","g","s","-","t","o","-","d","o">>>>]

\* lines 375-386
BlogTORequest(q, d) ==
    [url |-> <<"h","t","t","p","s",":","/","/","w","w","w",".","b","l","o","g","t","o",".","c","o","m","/","s","e","a","r","c","h","/">>, params |-> <<q>>]

\* a plausible slip: the date is put into the search text
NarcityRequestDated(q, d) ==
    [url |-> <<"h","t","t","p","s",":","/","/","w","w","w",".","n","a","r","c","i","t","y",".","c","o","m","/","s","e","a","r","c","h">>,
     params |-> <<q \o <<" ","T","o","r","o","n","t","o">> \o (IF IsNone(d) THEN <<>> ELSE <<" ", Val(d)>>)>>]

\* lines 472-483: the search text is f"{query} Toronto"
NarcityRequest(q, d) ==
    [url |-> <<"h","t","t","p","s",":","/","/","w","w","w",".","n","a","r","c","i","t","y",".","c","o","m","/","s","e","a","r","c","h">>,
     params |-> <<q \o <<" ","T","o","r","o","n","t","o">>>>]

\* search_activities(query, date) when the three search requests end as rA,
\* rB and rC: the requests issued, whether an exception leaves the call, and
\* the list returned
search_activities(q, d, rA, rB, rC) ==
    LET toronto_com == scrape_toronto_com(q, d, rA)
        blogto == scrape_blogto(q, d, rB)
        narcity == scrape_narcity(q, d, rC)
        all == Extend(Extend(Extend(<<>>, toronto_com.val), blogto.val), narcity.val)
    IN  [requests |-> <<TorontoComRequest(q, d), BlogTORequest(q, d), NarcityRequest(q, d)>>,
         exc |-> toronto_com.exc \/ blogto.exc \/ narcity.exc,
         records |-> deduplicate_activities(all)]

\* pairs of different dates
DatePairs == {dd \in Dates \X Dates : dd[1] # dd[2]}

\* the responses of a set that hold n result containers (a failed request
\* holds none)
OfLen(Responses, n) == {r \in Responses : Len(r.containers) = n}

\* the outcomes of the three search requests, alike in both calls
DateResponses ==
    UNION {OfLen(ResponsesA, n[1]) \X OfLen(ResponsesB, n[2]) \X OfLen(ResponsesC, n[3]) :
             n \in {m \in (0..MaxDateContainers) \X (0..MaxDateContainers)
                                                \X (0..MaxDateContainers) :
                        m[1] + m[2] + m[3] <= MaxDateContainers}}

InitDate ==
    /\ t_pc = "call"
    /\ t_query \in Queries
    /\ t_dates \in DatePairs
    /\ t_responses = <<>>
    /\ t_out = <<>>
    /\ SearchIdle /\ ValidIdle /\ DedupIdle /\ FetchIdle /\ ParseIdle

\* both calls run to their return, every request ending alike in the two
SearchTwice ==
    /\ t_pc = "call"
    /\ \E rs \in DateResponses :
          /\ t_responses' = rs
          /\ t_out' = <<search_activities(t_query, t_dates[1], rs[1], rs[2], rs[3]),
                        search_activities(t_query, t_dates[2], rs[1], rs[2], rs[3])>>
    /\ t_pc' = "returned"
    /\ UNCHANGED <<t_query, t_dates, searchVars, validVars, dedupVars, fetchVars, parseVars>>

NextDate == SearchTwice

SpecDate == InitDate /\ [][NextDate]_vars

---------------------------------------------------------------------------
(* Claims about deduplicate_activities, under SpecDedup *)

\* the key as the claims define it: the source_url if non-empty, else the title
ClaimKey(r) == IF r.source_url = <<>> THEN r.title ELSE r.source_url

\* C1: every record whose source_url and title are both empty is kept in the
\* output; a record with an empty key is never dropped.
C1_EmptyKeyKept ==
    d_pc = "returned" =>
        \A i \in 1..Len(d_in) :
            (d_in[i].source_url = <<>> /\ d_in[i].title = <<>>) => d_in[i] \in Range(d_out)

\* C2: for every non-empty key the output holds exactly the first input record
\* carrying that key and none of the later ones, and the kept records are in
\* their input order.
C2_FirstOfEachKey ==
    d_pc = "returned" =>
        /\ \A i \in 1..Len(d_in) :
              ClaimKey(d_in[i]) # <<>> =>
                  ((d_in[i] \in Range(d_out))
                      <=> (\A j \in 1..(i - 1) : ClaimKey(d_in[j]) # ClaimKey(d_in[i])))
        /\ \A a \in 1..Len(d_out) :
              /\ d_out[a].id \in 1..Len(d_in)
              /\ d_out[a] = d_in[d_out[a].id]
              /\ \A b \in (a + 1)..Len(d_out) : d_out[a].id < d_out[b].id

\* two records share a title key (no URL), a third has a URL; the first and the
\* third are returned, the second is dropped
C2_Witness ==
    /\ d_pc = "returned"
    /\ Len(d_in) = 3
    /\ d_in[1].source_url = <<>> /\ d_in[1].title = s_t
    /\ d_in[2].source_url = <<>> /\ d_in[2].title = s_t
    /\ d_in[3].source_url = s_v
    /\ d_out = <<d_in[1], d_in[3]>>

---------------------------------------------------------------------------
(* Claims about is_valid_image_url, under SpecValid *)

\* the content types of ContentTypes that start with "image/"
ImageContentTypes == {Some(s_image_jpeg), Some(s_image_slash)}

\* the content lengths of ContentLengths whose value is below 1000
SmallContentLengths ==
    {Some(<<"0">>), Some(<<"5","0","0">>), Some(<<"9","9","9">>), Some(<<" ","5","0","0"," ">>)}

\* C8: for a URL that matches a denylist pattern in either case, the function
\* returns false and no HEAD request is issued.
C8_DenylistNoProbe ==
    (v_pc = "returned" /\ v_image_url \in DenylistedUrls) =>
        (v_ret = FALSE /\ head_requests = 0)

\* a denylisted URL whose probe, had it been issued, would have accepted it
C8_Witness ==
    /\ v_pc = "returned"
    /\ v_image_url = <<"/","P","i","x","e","l",".","J","P","G">>
    /\ head = HeadResponse(Some(s_image_jpeg), Some(s_5000))
    /\ v_ret = FALSE /\ head_requests = 0

\* C9: for a non-empty URL matching no denylist pattern whose probe completes,
\* the function returns false if the content-type does not start with "image/",
\* false if a content-length is present with a value below 1000, true otherwise.
C9_HeaderDecision ==
    (v_pc = "returned" /\ v_image_url \in CleanUrls /\ head.kind = "ok") =>
        /\ head_requests = 1
        /\ v_ret = (head.ctype \in ImageContentTypes /\ head.clen \notin SmallContentLengths)

\* content-type image/jpeg and content-length 5000: accepted
C9_Witness ==
    /\ v_pc = "returned"
    /\ v_image_url \in CleanUrls
    /\ head = HeadResponse(Some(s_image_jpeg), Some(s_5000))
    /\ v_ret = TRUE

\* C10: for a non-empty URL matching no denylist pattern, when the HEAD request
\* fails at transport level the function returns true.
C10_FailOpen ==
    (v_pc = "returned" /\ v_image_url \in CleanUrls /\ head.kind = "fail") => v_ret = TRUE

\* a clean URL whose probe failed, accepted after one request
C10_Witness ==
    /\ v_pc = "returned"
    /\ v_image_url \in CleanUrls
    /\ head.kind = "fail"
    /\ head_requests = 1
    /\ v_ret = TRUE

---------------------------------------------------------------------------
(* Claims about search_activities, under Spec *)

Sites == {"Toronto.com", "BlogTO", "Narcity"}

\* C3: when all three search requests fail, the result is exactly adapter A's
\* 5 sample records in order, each with source_site "Toronto.com"; adapters B
\* and C contribute nothing and dedup removes none of the 5.
C3_AllFailSamples ==
    (pc = "done" /\ \A a \in 1..3 : responses[a] # "ok") =>
        /\ blogto_results = <<>> /\ narcity_results = <<>>
        /\ Len(result) = 5
        /\ result = create_sample_activities(query)
        /\ \A i \in 1..5 :
              /\ result[i].source_site = "Toronto.com"
              /\ result[i].id = <<"int", <<Digits[i + 1]>> >>
        /\ \A i, j \in 1..5 : i # j => result[i].source_url # result[j].source_url

\* three transport failures, and the query " jazz bar " in the first title
C3_Witness ==
    /\ pc = "done"
    /\ responses = <<"transport", "transport", "transport">>
    /\ Len(result) = 5
    /\ result[1].title = <<"E","x","p","l","o","r","e"," ","J","a","z","z"," ","B","a","r"," ","a","t"," ","C","N"," ","T","o","w","e","r">>
    /\ result[5].source_url = <<"h","t","t","p","s",":","/","/","w","w","w",".","t","o","r","o","n","t","o",".","c","o","m","/","t","h","i","n","g","s","-","t","o","-","d","o","/","s","t","-","l","a","w","r","e","n","c","e","-","m","a","r","k","e","t">>

\* C4: search_activities never raises: whatever the outcome of each search
\* fetch, page fetch, header probe and container, no exception leaves it, it
\* can always take its next step, and it ends by returning a list of records.
C4_NeverRaises ==
    /\ raised = FALSE
    /\ pc \in {"toronto_com", "blogto", "narcity", "dedup", "done"}
    /\ pc # "done" => ENABLED Next
    /\ pc = "done" =>
          \A i \in 1..Len(result) :
              result[i].source_site \in Sites /\ result[i].source_url # <<>>

\* an error status, a transport failure and a parser error, and a list returned
C4_Witness ==
    /\ pc = "done"
    /\ responses = <<"status", "transport", "parser">>
    /\ raised = FALSE
    /\ Len(result) = 5

\* the adapters' outputs in declaration order
Concatenated == toronto_com_results \o blogto_results \o narcity_results

\* the places of the list all that hold the first record of their key
FirstPlaces(all) ==
    {i \in 1..Len(all) : \A j \in 1..(i - 1) : ClaimKey(all[j]) # ClaimKey(all[i])}

\* C5: the result is the deduplication of the adapter outputs concatenated in
\* the order Toronto.com, BlogTO, Narcity, each in container order: it holds,
\* in that order, the first record of each key, so a key produced by two
\* adapters is returned as the earlier adapter's record.
C5_DeclarationOrder ==
    pc = "done" =>
        LET all == Concatenated
            first == FirstPlaces(all)
            \* the place in all of the first record with the key of result[k]
            place == [k \in 1..Len(result) |->
                         IF \E i \in first : ClaimKey(all[i]) = ClaimKey(result[k])
                         THEN CHOOSE i \in first : ClaimKey(all[i]) = ClaimKey(result[k])
                         ELSE 0]
        IN  /\ result = deduplicate_activities(all)
            /\ Len(result) = Cardinality(first)
            /\ \A k \in 1..Len(result) :
                  /\ place[k] # 0
                  /\ result[k] = all[place[k]]
                  /\ \A m \in (k + 1)..Len(result) : place[k] < place[m]

\* all three adapters produced the link http://x/p, Toronto.com after another
\* record; the result holds Toronto.com's record of it and BlogTO's other one
C5_Witness ==
    /\ pc = "done"
    /\ Len(toronto_com_results) = 2
    /\ toronto_com_results[2].source_url = s_x_p
    /\ \E i \in 1..Len(blogto_results) : blogto_results[i].source_url = s_x_p
    /\ \E i \in 1..Len(narcity_results) : narcity_results[i].source_url = s_x_p
    /\ Len(blogto_results) = 2 /\ blogto_results[1].source_url # s_x_p
    /\ Len(result) = 3
    /\ result[2].source_url = s_x_p /\ result[2].source_site = "Toronto.com"
    /\ result[3].source_site = "BlogTO"

\* C6: every record returned by an adapter, and so by search_activities, has a
\* non-empty title and a non-empty source_url.
C6_TitleAndUrl ==
    \A r \in Range(toronto_com_results) \cup Range(blogto_results)
                \cup Range(narcity_results) \cup Range(activities) \cup Range(result) :
        r.title # <<>> /\ r.source_url # <<>>

\* every adapter parsed containers and returned a record, and the result has
\* a record of each site
C6_Witness ==
    /\ pc = "done"
    /\ responses = <<"ok", "ok", "ok">>
    /\ \A site \in Sites : \E r \in Range(result) : r.source_site = site
    /\ \A r \in Range(result) : r.title # <<>> /\ r.source_url # <<>>

\* C7: in every record search_activities returns, images has at most 5 entries
\* and every entry is a URL that is_valid_image_url was called on and accepted,
\* the images taken inline from a result container included.
C7_ImagesValidated ==
    pc = "done" =>
        \A r \in Range(result) :
            /\ Len(r.images) <= MaxImages
            /\ \A k \in 1..Len(r.images) : r.images[k] \in validated

---------------------------------------------------------------------------
(* Claims about fetch_images_from_page, under SpecFetch *)

\* a is b with some of its items left out
RECURSIVE IsSubseq(_, _)
IsSubseq(a, b) ==
    IF a = <<>> THEN TRUE
    ELSE IF b = <<>> THEN FALSE
    ELSE IsSubseq(IF Head(a) = Head(b) THEN Tail(a) ELSE a, Tail(b))

\* the <img src> elements of the page in document order: those of the content
\* area, or of the article when there is no content area
PageElements(page) ==
    IF page.kind # "ok" THEN <<>>
    ELSE IF ~IsNone(page.content_area) THEN Val(page.content_area)
    ELSE IF ~IsNone(page.article) THEN Val(page.article)
    ELSE <<>>

\* the absolute URLs of the elements that have one and that the validator
\* accepts, in document order
AcceptedSrcs(url, elems) ==
    LET ok == SelectSeq(elems, LAMBDA e :
                  /\ ~IsNone(FirstSrc(e))
                  /\ is_valid_image_url(AbsoluteSrc(url, Val(FirstSrc(e))), e.head).ret)
    IN  [i \in 1..Len(ok) |-> AbsoluteSrc(url, Val(FirstSrc(ok[i])))]

\* the page has an og:image, no content area, and the validator accepts it
OgAccepted(page) ==
    /\ page.kind = "ok" /\ IsNone(page.content_area) /\ ~IsNone(page.og_image)
    /\ Val(page.og_image).content # <<>>
    /\ is_valid_image_url(Val(page.og_image).content, Val(page.og_image).head).ret

\* C11: fetch_images_from_page returns at most 5 image URLs however many
\* qualifying images the page holds; every returned URL was accepted by
\* is_valid_image_url; the returned URLs are in document order; and when the
\* fetch fails the result is the empty list.
C11_AtMostFiveValidated ==
    f_pc = "returned" =>
        /\ Len(f_ret.images) <= 5
        /\ \A k \in 1..Len(f_ret.images) : f_ret.images[k] \in f_ret.accepted
        /\ \/ OgAccepted(f_page) /\ f_ret.images = <<Val(f_page.og_image).content>>
           \/ IsSubseq(f_ret.images, AcceptedSrcs(f_url, PageElements(f_page)))
        /\ f_page.kind # "ok" => f_ret.images = <<>>

\* a content area of six images the validator accepts: five are returned
C11_Witness ==
    /\ f_pc = "returned"
    /\ f_page.kind = "ok" /\ ~IsNone(f_page.content_area)
    /\ Len(AcceptedSrcs(f_url, ContentImages(Val(f_page.content_area)))) = 6
    /\ Len(f_ret.images) = 5
    /\ f_ret.images[1] # f_ret.images[2]

---------------------------------------------------------------------------
(* Claims about the parsers, under SpecParse *)

\* both a title and a link are extracted from the container
TitleAndLink(container) ==
    ~container.raises /\ Truthy(container.title) /\ Truthy(container.href)

\* C12: for each of the three adapters, a container from which both a title
\* and a link are extracted yields a record whether or not it holds an inline
\* image; for BlogTO and Narcity such a container without an inline image
\* yields a record whose images list is empty.
C12_RecordWithoutImage ==
    (p_pc = "returned" /\ TitleAndLink(p_container)) =>
        /\ ~p_ret.exc
        /\ ~IsNone(p_ret.val)
        /\ (p_site \in {"BlogTO", "Narcity"} /\ IsNone(p_container.img)) =>
               Val(p_ret.val).images = <<>>

---------------------------------------------------------------------------
(* Claims about the date argument, under SpecDate *)

\* a record without its extraction-time date and its id
WithoutDateAndId(r) ==
    [title |-> r.title, description |-> r.description, location |-> r.location,
     images |-> r.images, source_url |-> r.source_url, source_site |-> r.source_site]

WithoutDatesAndIds(records) == [i \in 1..Len(records) |-> WithoutDateAndId(records[i])]

---------------------------------------------------------------------------
(* A claim about the list search_activities returns, under Spec *)

\* C14: search_activities never returns an empty list for a string query:
\* Toronto.com always yields at least one record (its parsed records, or the 5
\* sample records when the fetch fails, parsing raises, or a successful
\* response yields no record), each with a non-empty dedup key, and dedup
\* always keeps the first record of its input.
C14_NeverEmpty ==
    /\ pc \in {"blogto", "narcity", "dedup", "done"} =>
          LET samples == create_sample_activities(query)
          IN  /\ toronto_com_results # <<>>
              /\ \A i \in 1..Len(toronto_com_results) :
                    ClaimKey(toronto_com_results[i]) # <<>>
              /\ responses[1] # "ok" => toronto_com_results = samples
              /\ \/ toronto_com_results = samples /\ Len(samples) = 5
                 \/ \A i \in 1..Len(toronto_com_results) :
                       toronto_com_results[i].id[1] = "hash"
              /\ activities[1] = toronto_com_results[1]
    /\ pc = "done" =>
          /\ result # <<>>
          /\ result[1] = toronto_com_results[1]

\* the Toronto.com request succeeds, no container gives a record, and the
\* list returned starts with the first sample record and has a seventh record
C14_Witness ==
    /\ pc = "done"
    /\ responses[1] = "ok"
    /\ toronto_com_results = create_sample_activities(query)
    /\ result[1].id = <<"int", <<"1">>>>
    /\ Len(result) = 7

=============================================================================
